---- MODULE Spec2Model ----
(***************************************************************************)
(* The SEM diagram editor of src/components/ModelPreview.tsx as a state    *)
(* machine: the graph (nodes, links), the interaction state (mode, link    *)
(* type, pending link source, preview endpoint, selection), the undo/redo  *)
(* history with its replay flag, and the auto-layout function.             *)
(*                                                                         *)
(* One action per event handler.  React applies the state updates a        *)
(* handler queues in one batch, renders, and then runs the effects whose   *)
(* dependencies changed; updates queued by an effect are applied in a      *)
(* further render.  pc tells where the component is in that cycle:         *)
(*   "mount"  : rendered for the first time, mount effects not yet run     *)
(*   "effect" : a render committed a change of nodes, links, history or    *)
(*              historyIndex; the history-recording effect is due          *)
(*   "idle"   : settled; the next user event can be handled                *)
(* Indices (historyIndex, selectedLinkIndex) are 0-based as in the source; *)
(* null is NULL for ids, NoIndex for indices and NoPoint for points.       *)
(***************************************************************************)
EXTENDS Integers, Sequences, FiniteSets, TLC

VARIABLES
    nodes,              \* prop nodes: sequence of [id, label, type, x, y]
    links,              \* prop links: sequence of [source, target, type]
    interactionMode,    \* "move" | "link"
    linkType,           \* "directed" | "covariance"
    linkingSourceId,    \* pending link source id, or NULL
    tempLineEnd,        \* preview endpoint [x, y], or NoPoint
    selectedNodeId,     \* id or NULL
    selectedLinkIndex,  \* 0-based index or NoIndex
    history,            \* sequence of [nodes, links] snapshots
    historyIndex,       \* 0-based index into history, -1 initially
    isUndoRedoAction,   \* the ref isUndoRedoAction.current
    aliasedEntries,     \* positions of the history entries that hold the very
                        \* arrays handed to setNodes and setLinks
    pc,                 \* position in the render/effect cycle
    budget,             \* graph-replacing user events the model still follows
    trail               \* the last graph-changing edit and the undo/redo after it

vars == <<nodes, links, interactionMode, linkType, linkingSourceId, tempLineEnd,
          selectedNodeId, selectedLinkIndex, history, historyIndex,
          isUndoRedoAction, aliasedEntries, pc, budget, trail>>

ui == <<interactionMode, linkType, linkingSourceId, tempLineEnd>>
selection == <<selectedNodeId, selectedLinkIndex>>
hist == <<history, historyIndex, isUndoRedoAction, aliasedEntries>>

-----------------------------------------------------------------------------
(* Program constants.                                                      *)

HISTORY_LIMIT == 20
canvasPadding == 100
layerGap == 350
nodeGap == 180
observedGap == 100
observedOffsetY == 120
jitterBase == 100
latentAnchorX == 50
observedAnchorX == 60
anchorY == 25

(* Bounds of the model.                                                    *)

MaxEdits == 3
MaxStartupEdits == 1
MaxLayoutRuns == 2
MaxInputLinks == 2

NULL == "null"
NoIndex == -1
NoPoint == [x |-> -1, y |-> -1]

Min(a, b) == IF a < b THEN a ELSE b

-----------------------------------------------------------------------------
(* Values.                                                                 *)

Node(id, label, type, x, y) == [id |-> id, label |-> label, type |-> type, x |-> x, y |-> y]
Link(source, target, type) == [source |-> source, target |-> target, type |-> type]
Graph(ns, ls) == [nodes |-> ns, links |-> ls]

NodeTypes == {"latent", "observed"}
LinkTypes == {"directed", "covariance"}

IndexSeq(n) == [i \in 1..n |-> i]
Range(s) == {s[i] : i \in 1..Len(s)}
NodeIds(ns) == {ns[i].id : i \in 1..Len(ns)}

(* JSON.stringify / JSON.parse on node and link arrays: every object is    *)
(* written as the list of its values in key order and read back from it.   *)
stringifyNodes(ns) == [i \in 1..Len(ns) |-> <<ns[i].id, ns[i].label, ns[i].type, ns[i].x, ns[i].y>>]
parseNodes(js) == [i \in 1..Len(js) |-> Node(js[i][1], js[i][2], js[i][3], js[i][4], js[i][5])]
stringifyLinks(ls) == [i \in 1..Len(ls) |-> <<ls[i].source, ls[i].target, ls[i].type>>]
parseLinks(js) == [i \in 1..Len(js) |-> Link(js[i][1], js[i][2], js[i][3])]
copyNodes(ns) == parseNodes(stringifyNodes(ns))
copyLinks(ls) == parseLinks(stringifyLinks(ls))

-----------------------------------------------------------------------------
(* History management.                                                     *)

(* saveToHistory with the capacity test off by one (> for >=).             *)
saveToHistory_lateEviction(h, idx, hi, newNodes, newLinks) ==
    LET newHistory == SubSeq(h, 1, Min(hi + 1, Len(h)))
        entry      == Graph(parseNodes(stringifyNodes(newNodes)), parseLinks(stringifyLinks(newLinks)))
        kept       == IF Len(newHistory) > HISTORY_LIMIT THEN Tail(newHistory) ELSE newHistory
    IN  [history |-> Append(kept, entry),
         historyIndex |-> Min(idx + 1, HISTORY_LIMIT - 1)]

(* saveToHistory(newNodes, newLinks) of a render whose historyIndex is hi, *)
(* applied to the pending history h and pending index idx (both setters    *)
(* are functional updates).                                                *)
saveToHistory(h, idx, hi, newNodes, newLinks) ==
    LET newHistory == SubSeq(h, 1, Min(hi + 1, Len(h)))
        entry      == Graph(copyNodes(newNodes), copyLinks(newLinks))
        kept       == IF Len(newHistory) >= HISTORY_LIMIT THEN Tail(newHistory) ELSE newHistory
    IN  [history |-> Append(kept, entry),
         historyIndex |-> Min(idx + 1, HISTORY_LIMIT - 1)]

(* Where the entries at the positions of the set aliased are after         *)
(* saveToHistory of a render whose historyIndex is hi has cut, shifted and *)
(* extended the history h: the entry it appends is a deep copy.            *)
aliasedAfterSave(aliased, h, hi) ==
    LET cut   == Min(hi + 1, Len(h))
        shift == IF cut >= HISTORY_LIMIT THEN 1 ELSE 0
    IN  {k - shift : k \in {a \in aliased : a <= cut /\ a > shift}}

(* history[historyIndex] is defined                                        *)
HasCurrent(h, hi) == hi >= 0 /\ hi < Len(h)

(* The condition under which the history-recording effect saves.           *)
effectSaves(ns, ls, h, hi, flag) ==
    /\ ~flag
    /\ (Len(ns) > 0 \/ Len(ls) > 0)
    /\ \/ ~HasCurrent(h, hi)
       \/ stringifyNodes(h[hi + 1].nodes) # stringifyNodes(ns)
       \/ stringifyLinks(h[hi + 1].links) # stringifyLinks(ls)

NoTrail == [op |-> "none", stage |-> "none", pre |-> Graph(<<>>, <<>>),
            post |-> Graph(<<>>, <<>>), index |-> -1, length |-> 0]

(* The record kept of an edit by handler op that replaces the graph by     *)
(* (ns, ls), with the history index and length the edit found: only an     *)
(* edit that changes the graph is followed.                                *)
EditTrail(op, ns, ls) ==
    IF Graph(ns, ls) = Graph(nodes, links) THEN NoTrail
    ELSE [op |-> op, stage |-> "edit", pre |-> Graph(nodes, links),
          post |-> Graph(ns, ls), index |-> historyIndex, length |-> Len(history)]

(* The record kept of a confirmed load or new-model event by handler op    *)
(* that installs the graph g, with the history index and length it found.  *)
ResetTrail(op, g) ==
    [op |-> op, stage |-> "reset", pre |-> Graph(nodes, links),
     post |-> g, index |-> historyIndex, length |-> Len(history)]

(* The record kept of a two-click link gesture that ended without a new    *)
(* link: cancelled by a click on the source, or rejected as a duplicate.   *)
EndTrail(id) ==
    [NoTrail EXCEPT !.op = IF linkingSourceId = id THEN "cancelLink" ELSE "rejectLink"]

(* The mount effect and the first run of the history-recording effect:     *)
(* both run after the first render and their updates form one batch.       *)
Mount ==
    /\ pc = "mount"
    /\ LET s0 == [history |-> history, historyIndex |-> historyIndex]
           s1 == IF Len(history) = 0 /\ Len(nodes) > 0
                 THEN saveToHistory(s0.history, s0.historyIndex, historyIndex, nodes, links)
                 ELSE s0
           s2 == IF effectSaves(nodes, links, history, historyIndex, isUndoRedoAction)
                 THEN saveToHistory(s1.history, s1.historyIndex, historyIndex, nodes, links)
                 ELSE s1
       IN  /\ history' = s2.history
           /\ historyIndex' = s2.historyIndex
           /\ aliasedEntries' =
                LET a1 == IF Len(history) = 0 /\ Len(nodes) > 0
                          THEN aliasedAfterSave(aliasedEntries, s0.history, historyIndex)
                          ELSE aliasedEntries
                IN  IF effectSaves(nodes, links, history, historyIndex, isUndoRedoAction)
                    THEN aliasedAfterSave(a1, s1.history, historyIndex)
                    ELSE a1
           /\ pc' = IF s2 = s0 THEN "idle" ELSE "effect"
    /\ isUndoRedoAction' = FALSE
    /\ UNCHANGED <<nodes, links, ui, selection, budget, trail>>

(* The history-recording effect, run after a render that changed one of    *)
(* its dependencies.                                                       *)
RecordEffect ==
    /\ pc = "effect"
    /\ IF effectSaves(nodes, links, history, historyIndex, isUndoRedoAction)
       THEN LET s == saveToHistory(history, historyIndex, historyIndex, nodes, links)
            IN  /\ history' = s.history
                /\ historyIndex' = s.historyIndex
                /\ aliasedEntries' = aliasedAfterSave(aliasedEntries, history, historyIndex)
                /\ pc' = "effect"
       ELSE /\ UNCHANGED <<history, historyIndex, aliasedEntries>>
            /\ pc' = "idle"
    /\ isUndoRedoAction' = FALSE
    /\ UNCHANGED <<nodes, links, ui, selection, budget, trail>>

(* undo() restoring history[historyIndex] for history[historyIndex - 1].   *)
undo_sameSnapshot ==
    /\ pc = "idle"
    /\ IF historyIndex > 0
       THEN LET prevState == history[historyIndex + 1]
            IN  /\ isUndoRedoAction' = TRUE
                /\ nodes' = copyNodes(prevState.nodes)
                /\ links' = copyLinks(prevState.links)
                /\ historyIndex' = historyIndex - 1
                /\ selectedNodeId' = NULL
                /\ selectedLinkIndex' = NoIndex
                /\ pc' = "effect"
                /\ UNCHANGED <<history, aliasedEntries>>
       ELSE UNCHANGED <<nodes, links, hist, selection, pc>>
    /\ trail' = IF trail.stage = "edit" THEN [trail EXCEPT !.stage = "undo"] ELSE NoTrail
    /\ UNCHANGED <<ui, budget>>

(* undo(): a request to undo.  With historyIndex <= 0 the button is        *)
(* disabled and the function's own guard fails: the program state stays.   *)
undo ==
    /\ pc = "idle"
    /\ IF historyIndex > 0
       THEN LET prevState == history[historyIndex]
            IN  /\ isUndoRedoAction' = TRUE
                /\ nodes' = copyNodes(prevState.nodes)
                /\ links' = copyLinks(prevState.links)
                /\ historyIndex' = historyIndex - 1
                /\ selectedNodeId' = NULL
                /\ selectedLinkIndex' = NoIndex
                /\ pc' = "effect"
                /\ UNCHANGED <<history, aliasedEntries>>
       ELSE UNCHANGED <<nodes, links, hist, selection, pc>>
    /\ trail' = IF trail.stage = "edit" THEN [trail EXCEPT !.stage = "undo"] ELSE NoTrail
    /\ UNCHANGED <<ui, budget>>

redo ==
    /\ pc = "idle"
    /\ IF historyIndex < Len(history) - 1
       THEN LET nextState == history[historyIndex + 2]
            IN  /\ isUndoRedoAction' = TRUE
                /\ nodes' = copyNodes(nextState.nodes)
                /\ links' = copyLinks(nextState.links)
                /\ historyIndex' = historyIndex + 1
                /\ selectedNodeId' = NULL
                /\ selectedLinkIndex' = NoIndex
                /\ pc' = "effect"
                /\ UNCHANGED <<history, aliasedEntries>>
       ELSE UNCHANGED <<nodes, links, hist, selection, pc>>
    /\ trail' = IF trail.stage = "undo" THEN [trail EXCEPT !.stage = "redo"] ELSE NoTrail
    /\ UNCHANGED <<ui, budget>>

-----------------------------------------------------------------------------
(* Inputs of the events.                                                   *)

EmptyGraph == Graph(<<>>, <<>>)

(* The graph of the scenario of the specification, and two smaller ones.   *)
ScenarioGraph ==
    Graph(<<Node("a", "A", "latent", 100, 100), Node("b", "B", "latent", 130, 110),
            Node("c", "C", "observed", 100, 100)>>,
          <<Link("a", "b", "directed"), Link("a", "c", "directed")>>)
OneNodeGraph == Graph(<<Node("a", "A", "latent", 100, 100)>>, <<>>)
PairGraph ==
    Graph(<<Node("a", "A", "latent", 100, 100), Node("c", "C", "observed", 100, 100)>>,
          <<Link("a", "c", "directed")>>)

(* The props of an editor that is constructed with a graph.                *)
StartupGraphs == {OneNodeGraph, PairGraph}

(* The graphs auto layout is tried on: up to three nodes a, b, c of either *)
(* type and up to MaxInputLinks links of either type between any two of    *)
(* them, a node and itself included.                                       *)
InputIds == <<"a", "b", "c">>
InputNodeLists ==
    UNION {{[i \in 1..n |-> Node(InputIds[i], "v", types[i], 100 + 15 * (i - 1), 100 + 10 * (i - 1))] :
                types \in [1..n -> NodeTypes]} : n \in 1..Len(InputIds)}
InputLinkLists(ns) ==
    LET all == {Link(s, t, ty) : s \in NodeIds(ns), t \in NodeIds(ns), ty \in LinkTypes}
    IN  UNION {[1..k -> all] : k \in 0..MaxInputLinks}
LayoutInputs == UNION {{Graph(ns, ls) : ls \in InputLinkLists(ns)} : ns \in InputNodeLists}

(* savedModels as read from localStorage: graphs stored by earlier         *)
(* sessions.                                                               *)
StoredModels ==
    {Graph(<<Node("a", "A", "latent", 100, 100), Node("b", "B", "observed", 130, 110)>>, <<>>)}

(* Text of the label input; Date.now() readings; Math.random() * 50 for x  *)
(* and y; pointer positions relative to the canvas.                        *)
Labels == {" ", "v"}
trim(label) == IF label = " " THEN "" ELSE label
MaxClock == 2
ClockReadings == 1..MaxClock
idOfClock(t) == <<"n1", "n2", "n3", "n4", "n5">>[t]
JitterPairs == {<<0, 0>>}
DropPoints == {[x |-> 150, y |-> 125], [x |-> 300, y |-> 250]}
MovePoints == {[x |-> 300, y |-> 250]}

(* The canvas onClick, reached by every click that is not stopped on its   *)
(* way up: it clears the selection.                                        *)
canvasClickUpdates ==
    /\ selectedNodeId' = NULL
    /\ selectedLinkIndex' = NoIndex

canvasClick ==
    /\ pc = "idle"
    /\ selection # <<NULL, NoIndex>>
    /\ canvasClickUpdates
    /\ trail' = NoTrail
    /\ UNCHANGED <<nodes, links, ui, hist, pc, budget>>

-----------------------------------------------------------------------------
(* Graph edits.                                                             *)

addNode(newNodeLabel, nodeType, now, jitter) ==
    /\ pc = "idle"
    /\ budget > 0
    /\ IF trim(newNodeLabel) = ""
       THEN UNCHANGED <<nodes, pc, budget, trail>>
       ELSE LET newNode == Node(idOfClock(now), newNodeLabel, nodeType,
                                jitterBase + jitter[1], jitterBase + jitter[2])
            IN  /\ nodes' = Append(nodes, newNode)
                /\ pc' = "effect"
                /\ budget' = budget - 1
                /\ trail' = EditTrail("addNode", nodes', links)
    /\ UNCHANGED <<links, ui, selection, hist>>

(* The duplicate test of handleNodeClick.                                  *)
linkExists(ls, source, target, type) ==
    \E i \in 1..Len(ls) :
        \/ (ls[i].source = source /\ ls[i].target = target)
        \/ (type = "covariance" /\ ls[i].source = target /\ ls[i].target = source)

(* handleNodeClick() keeping the pending source when the link is refused   *)
(* as a duplicate.                                                         *)
handleNodeClick_retryOnDuplicate(id) ==
    /\ pc = "idle"
    /\ IF interactionMode = "link"
       THEN /\ IF linkingSourceId = NULL
               THEN /\ linkingSourceId' = id
                    /\ UNCHANGED <<links, tempLineEnd, pc, budget>>
                    /\ trail' = NoTrail
               ELSE IF linkingSourceId # id
                       /\ ~linkExists(links, linkingSourceId, id, linkType)
                    THEN /\ budget > 0
                         /\ links' = Append(links, Link(linkingSourceId, id, linkType))
                         /\ pc' = "effect"
                         /\ budget' = budget - 1
                         /\ trail' = EditTrail("addLink", nodes, links')
                         /\ linkingSourceId' = NULL
                         /\ tempLineEnd' = NoPoint
                    ELSE /\ UNCHANGED <<links, pc, budget>>
                         /\ trail' = EndTrail(id)
                         /\ linkingSourceId' = IF linkingSourceId = id THEN NULL ELSE linkingSourceId
                         /\ tempLineEnd' = IF linkingSourceId = id THEN NoPoint ELSE tempLineEnd
            /\ UNCHANGED selection
       ELSE /\ selectedNodeId' = id
            /\ selectedLinkIndex' = NoIndex
            /\ trail' = NoTrail
            /\ UNCHANGED <<links, linkingSourceId, tempLineEnd, pc, budget>>
    /\ UNCHANGED <<nodes, interactionMode, linkType, hist>>

(* handleNodeClick() without the tests for a second click on the source.   *)
handleNodeClick_selfLink(id) ==
    /\ pc = "idle"
    /\ IF interactionMode = "link"
       THEN /\ IF linkingSourceId = NULL
               THEN /\ linkingSourceId' = id
                    /\ UNCHANGED <<links, tempLineEnd, pc, budget>>
                    /\ trail' = NoTrail
               ELSE /\ IF ~linkExists(links, linkingSourceId, id, linkType)
                       THEN /\ budget > 0
                            /\ links' = Append(links, Link(linkingSourceId, id, linkType))
                            /\ pc' = "effect"
                            /\ budget' = budget - 1
                            /\ trail' = EditTrail("addLink", nodes, links')
                       ELSE /\ UNCHANGED <<links, pc, budget>>
                            /\ trail' = EndTrail(id)
                    /\ linkingSourceId' = NULL
                    /\ tempLineEnd' = NoPoint
            /\ UNCHANGED selection
       ELSE /\ selectedNodeId' = id
            /\ selectedLinkIndex' = NoIndex
            /\ trail' = NoTrail
            /\ UNCHANGED <<links, linkingSourceId, tempLineEnd, pc, budget>>
    /\ UNCHANGED <<nodes, interactionMode, linkType, hist>>

(* A click on the node element of id: the element stops the propagation.   *)
handleNodeClick(id) ==
    /\ pc = "idle"
    /\ IF interactionMode = "link"
       THEN /\ IF linkingSourceId = NULL
               THEN /\ linkingSourceId' = id
                    /\ UNCHANGED <<links, tempLineEnd, pc, budget>>
                    /\ trail' = NoTrail
               ELSE /\ IF linkingSourceId # id
                          /\ ~linkExists(links, linkingSourceId, id, linkType)
                       THEN /\ budget > 0
                            /\ links' = Append(links, Link(linkingSourceId, id, linkType))
                            /\ pc' = "effect"
                            /\ budget' = budget - 1
                            /\ trail' = EditTrail("addLink", nodes, links')
                       ELSE /\ UNCHANGED <<links, pc, budget>>
                            /\ trail' = EndTrail(id)
                    /\ linkingSourceId' = NULL
                    /\ tempLineEnd' = NoPoint
            /\ UNCHANGED selection
       ELSE /\ selectedNodeId' = id
            /\ selectedLinkIndex' = NoIndex
            /\ trail' = NoTrail
            /\ UNCHANGED <<links, linkingSourceId, tempLineEnd, pc, budget>>
    /\ UNCHANGED <<nodes, interactionMode, linkType, hist>>

(* A link is drawn, and can be clicked, only when both its ends are nodes. *)
linkRendered(i) ==
    /\ links[i + 1].source \in NodeIds(nodes)
    /\ links[i + 1].target \in NodeIds(nodes)

(* handleLinkClick() leaving the selected node as it is.                   *)
handleLinkClick_keepNode(index) ==
    /\ pc = "idle"
    /\ selectedLinkIndex' = index
    /\ trail' = NoTrail
    /\ UNCHANGED <<nodes, links, ui, selectedNodeId, hist, pc, budget>>

(* A click on the drawn link at position index of the link list: the       *)
(* handler stops the propagation.                                          *)
handleLinkClick(index) ==
    /\ pc = "idle"
    /\ selectedLinkIndex' = index
    /\ selectedNodeId' = NULL
    /\ trail' = NoTrail
    /\ UNCHANGED <<nodes, links, ui, hist, pc, budget>>

(* handleMouseMove() recording a snapshot with every preview update.       *)
handleMouseMove_savesPreview(point) ==
    /\ pc = "idle"
    /\ interactionMode = "link" /\ linkingSourceId # NULL
    /\ tempLineEnd' = point
    /\ LET s == saveToHistory(history, historyIndex, historyIndex, nodes, links)
       IN  /\ history' = s.history
           /\ historyIndex' = s.historyIndex
           /\ aliasedEntries' = aliasedAfterSave(aliasedEntries, history, historyIndex)
    /\ pc' = "effect"
    /\ trail' = NoTrail
    /\ UNCHANGED <<nodes, links, interactionMode, linkType, linkingSourceId,
                   selection, isUndoRedoAction, budget>>

(* onMouseMove of the canvas: the preview endpoint follows the pointer     *)
(* while a link is pending.                                                *)
handleMouseMove(point) ==
    /\ pc = "idle"
    /\ interactionMode = "link" /\ linkingSourceId # NULL
    /\ tempLineEnd' = point
    /\ trail' = NoTrail
    /\ UNCHANGED <<nodes, links, interactionMode, linkType, linkingSourceId,
                   selection, hist, pc, budget>>

(* The Move button only switching the mode.                                *)
moveModeButton_keepPending ==
    /\ pc = "idle"
    /\ interactionMode' = "move"
    /\ canvasClickUpdates
    /\ trail' = NoTrail
    /\ UNCHANGED <<nodes, links, linkType, linkingSourceId, tempLineEnd, hist, pc, budget>>

(* The Move and Link buttons and the link type selector of the toolbar.    *)
moveModeButton ==
    /\ pc = "idle"
    /\ interactionMode' = "move"
    /\ linkingSourceId' = NULL
    /\ tempLineEnd' = NoPoint
    /\ canvasClickUpdates
    /\ trail' = NoTrail
    /\ UNCHANGED <<nodes, links, linkType, hist, pc, budget>>

linkModeButton ==
    /\ pc = "idle"
    /\ interactionMode' = "link"
    /\ linkingSourceId' = NULL
    /\ canvasClickUpdates
    /\ trail' = NoTrail
    /\ UNCHANGED <<nodes, links, linkType, tempLineEnd, hist, pc, budget>>

linkTypeButton(type) ==
    /\ pc = "idle"
    /\ interactionMode = "link"
    /\ linkType' = type
    /\ canvasClickUpdates
    /\ trail' = NoTrail
    /\ UNCHANGED <<nodes, links, interactionMode, linkingSourceId, tempLineEnd,
                   hist, pc, budget>>

(* onDragEnd of the node element at position i of the node list.           *)
onDragEnd(i, point) ==
    /\ pc = "idle"
    /\ budget > 0
    /\ interactionMode = "move"
    /\ LET node == nodes[i]
           newX == point.x - (IF node.type = "latent" THEN latentAnchorX ELSE observedAnchorX)
           newY == point.y - anchorY
       IN  nodes' = [k \in 1..Len(nodes) |->
                        IF nodes[k].id = node.id
                        THEN [nodes[k] EXCEPT !.x = newX, !.y = newY]
                        ELSE nodes[k]]
    /\ pc' = "effect"
    /\ budget' = budget - 1
    /\ trail' = EditTrail("drag", nodes', links)
    /\ UNCHANGED <<links, ui, selection, hist>>

(* handleDeleteSelected() keeping the links that start at the deleted node. *)
handleDeleteSelected_targetOnly(confirmed) ==
    /\ pc = "idle"
    /\ selectedNodeId # NULL \/ selectedLinkIndex # NoIndex
    /\ IF selectedNodeId # NULL
       THEN IF confirmed
            THEN /\ budget > 0
                 /\ nodes' = SelectSeq(nodes, LAMBDA n : n.id # selectedNodeId)
                 /\ links' = SelectSeq(links, LAMBDA l : l.target # selectedNodeId)
                 /\ pc' = "effect"
                 /\ budget' = budget - 1
                 /\ trail' = EditTrail("deleteNode", nodes', links')
            ELSE /\ UNCHANGED <<nodes, links, pc, budget>>
                 /\ trail' = NoTrail
       ELSE IF confirmed
            THEN /\ budget > 0
                 /\ links' = [k \in 1..(Len(links) - 1) |->
                                 IF k < selectedLinkIndex + 1 THEN links[k] ELSE links[k + 1]]
                 /\ pc' = "effect"
                 /\ budget' = budget - 1
                 /\ trail' = EditTrail("deleteLink", nodes, links')
                 /\ UNCHANGED nodes
            ELSE /\ UNCHANGED <<nodes, links, pc, budget>>
                 /\ trail' = NoTrail
    /\ canvasClickUpdates
    /\ UNCHANGED <<ui, hist>>

(* handleDeleteSelected(): the Delete button is disabled when nothing is   *)
(* selected; confirmed is the answer of window.confirm.                    *)
handleDeleteSelected(confirmed) ==
    /\ pc = "idle"
    /\ selectedNodeId # NULL \/ selectedLinkIndex # NoIndex
    /\ IF selectedNodeId # NULL
       THEN IF confirmed
            THEN /\ budget > 0
                 /\ nodes' = SelectSeq(nodes, LAMBDA n : n.id # selectedNodeId)
                 /\ links' = SelectSeq(links, LAMBDA l : l.source # selectedNodeId
                                                        /\ l.target # selectedNodeId)
                 /\ pc' = "effect"
                 /\ budget' = budget - 1
                 /\ trail' = EditTrail("deleteNode", nodes', links')
            ELSE /\ UNCHANGED <<nodes, links, pc, budget>>
                 /\ trail' = NoTrail
       ELSE IF confirmed
            THEN /\ budget > 0
                 /\ links' = [k \in 1..(Len(links) - 1) |->
                                 IF k < selectedLinkIndex + 1 THEN links[k] ELSE links[k + 1]]
                 /\ pc' = "effect"
                 /\ budget' = budget - 1
                 /\ trail' = EditTrail("deleteLink", nodes, links')
                 /\ UNCHANGED nodes
            ELSE /\ UNCHANGED <<nodes, links, pc, budget>>
                 /\ trail' = NoTrail
    /\ canvasClickUpdates
    /\ UNCHANGED <<ui, hist>>

(* loadModel() leaving the history as it is.                               *)
loadModel_keepHistory(model, confirmed) ==
    /\ pc = "idle"
    /\ IF confirmed
       THEN LET loadedNodes == copyNodes(model.nodes)
                loadedLinks == copyLinks(model.links)
            IN  /\ budget > 0
                /\ nodes' = loadedNodes
                /\ links' = loadedLinks
                /\ UNCHANGED <<history, historyIndex, aliasedEntries>>
                /\ pc' = "effect"
                /\ budget' = budget - 1
                /\ trail' = ResetTrail("loadModel", Graph(model.nodes, model.links))
       ELSE /\ UNCHANGED <<nodes, links, history, historyIndex, aliasedEntries, pc, budget>>
            /\ trail' = NoTrail
    /\ canvasClickUpdates
    /\ UNCHANGED <<ui, isUndoRedoAction>>

(* loadModel() with the click stopped at the list entry: the canvas        *)
(* onClick is not reached.                                                 *)
loadModel_stopsPropagation(model, confirmed) ==
    /\ pc = "idle"
    /\ IF confirmed
       THEN LET loadedNodes == copyNodes(model.nodes)
                loadedLinks == copyLinks(model.links)
            IN  /\ budget > 0
                /\ nodes' = loadedNodes
                /\ links' = loadedLinks
                /\ history' = <<Graph(loadedNodes, loadedLinks)>>
                /\ historyIndex' = 0
                /\ aliasedEntries' = {1}
                /\ pc' = "effect"
                /\ budget' = budget - 1
                /\ trail' = ResetTrail("loadModel", Graph(model.nodes, model.links))
       ELSE /\ UNCHANGED <<nodes, links, history, historyIndex, aliasedEntries, pc, budget>>
            /\ trail' = NoTrail
    /\ UNCHANGED <<ui, selection, isUndoRedoAction>>

(* loadModel(model): a click on an entry of the Saved Models list, inside  *)
(* the canvas element; confirmed is the answer of window.confirm.          *)
loadModel(model, confirmed) ==
    /\ pc = "idle"
    /\ IF confirmed
       THEN LET loadedNodes == copyNodes(model.nodes)
                loadedLinks == copyLinks(model.links)
            IN  /\ budget > 0
                /\ nodes' = loadedNodes
                /\ links' = loadedLinks
                /\ history' = <<Graph(loadedNodes, loadedLinks)>>
                /\ historyIndex' = 0
                /\ aliasedEntries' = {1}
                /\ pc' = "effect"
                /\ budget' = budget - 1
                /\ trail' = ResetTrail("loadModel", Graph(model.nodes, model.links))
       ELSE /\ UNCHANGED <<nodes, links, history, historyIndex, aliasedEntries, pc, budget>>
            /\ trail' = NoTrail
    /\ canvasClickUpdates
    /\ UNCHANGED <<ui, isUndoRedoAction>>

createNewModel(confirmed) ==
    /\ pc = "idle"
    /\ IF confirmed
       THEN /\ budget > 0
            /\ nodes' = <<>>
            /\ links' = <<>>
            /\ history' = <<Graph(<<>>, <<>>)>>
            /\ historyIndex' = 0
            /\ aliasedEntries' = {}
            /\ pc' = "effect"
            /\ budget' = budget - 1
            /\ trail' = ResetTrail("createNewModel", Graph(<<>>, <<>>))
       ELSE /\ UNCHANGED <<nodes, links, history, historyIndex, aliasedEntries, pc, budget>>
            /\ trail' = NoTrail
    /\ canvasClickUpdates
    /\ UNCHANGED <<ui, isUndoRedoAction>>

-----------------------------------------------------------------------------
(* Auto layout.  Node objects are told apart by their position in the node *)
(* list; latents, observed and the lists derived from them hold positions. *)

latentsOf(ns) == SelectSeq(IndexSeq(Len(ns)), LAMBDA i : ns[i].type = "latent")
observedOf(ns) == SelectSeq(IndexSeq(Len(ns)), LAMBDA i : ns[i].type = "observed")

(* No incoming directed path from a latent.                                *)
isExogenous(ns, ls, l) ==
    ~ \E k \in 1..Len(ls) :
        /\ ls[k].target = ns[l].id
        /\ ls[k].type = "directed"
        /\ \E src \in Range(latentsOf(ns)) : ns[src].id = ls[k].source

exogenousLatentsOf(ns, ls) == SelectSeq(latentsOf(ns), LAMBDA l : isExogenous(ns, ls, l))

endogenousLatentsOf(ns, ls) ==
    SelectSeq(latentsOf(ns),
              LAMBDA l : ~ \E ex \in Range(exogenousLatentsOf(ns, ls)) : ns[ex].id = ns[l].id)

(* The place of element e in the sequence s that holds it once.            *)
indexIn(s, e) == CHOOSE k \in 1..Len(s) : s[k] = e

(* Steps 4 and 5: the two columns of latents.  The halved difference of    *)
(* the column heights is a multiple of nodeGap / 2 = 90, an integer.       *)
placeLatents(ns, ls) ==
    LET exo == exogenousLatentsOf(ns, ls)
        endo == endogenousLatentsOf(ns, ls)
        totalExoHeight == Len(exo) * nodeGap
        totalEndoHeight == Len(endo) * nodeGap
        endoStartY == IF Len(endo) < Len(exo)
                      THEN canvasPadding + (totalExoHeight - totalEndoHeight) \div 2
                      ELSE canvasPadding
    IN  [i \in 1..Len(ns) |->
            IF i \in Range(exo)
            THEN [ns[i] EXCEPT !.x = canvasPadding,
                               !.y = canvasPadding + (indexIn(exo, i) - 1) * nodeGap]
            ELSE IF i \in Range(endo)
            THEN [ns[i] EXCEPT !.x = canvasPadding + layerGap,
                               !.y = endoStartY + (indexIn(endo, i) - 1) * nodeGap]
            ELSE ns[i]]

(* observed.find(o => o.id === id): the first observed node of that id, 0  *)
(* for undefined.                                                          *)
findObserved(ns, id) ==
    LET obs == observedOf(ns)
        hits == SelectSeq(obs, LAMBDA o : ns[o].id = id)
    IN  IF Len(hits) = 0 THEN 0 ELSE hits[1]

(* placeObservedOf putting a row below the old place of each observed node *)
(* instead of below the latent.                                            *)
placeObservedOf_relative(cur, ls, latent) ==
    LET connectedObs ==
            LET hasObserved(id) == \E o \in Range(observedOf(cur)) : cur[o].id = id
            IN  SelectSeq(observedOf(cur), LAMBDA o :
                    \E k \in 1..Len(ls) :
                        \/ (ls[k].source = cur[latent].id /\ ls[k].target = cur[o].id)
                        \/ (ls[k].target = cur[latent].id /\ ls[k].source = cur[o].id))
        totalWidth == (Len(connectedObs) - 1) * observedGap
        startX == cur[latent].x - totalWidth \div 2
    IN  [i \in 1..Len(cur) |->
            IF i \in Range(connectedObs)
            THEN [cur[i] EXCEPT !.x = startX + (indexIn(connectedObs, i) - 1) * observedGap,
                                !.y = cur[i].y + observedOffsetY]
            ELSE cur[i]]

(* Step 6 for one latent: the observed nodes linked to it, without         *)
(* repetitions, in the order of the links.                                 *)
connectedObsOf(ns, ls, latent) ==
    LET hasObserved(id) == \E o \in Range(observedOf(ns)) : ns[o].id = id
        mine == SelectSeq(ls, LAMBDA l :
                    \/ (l.source = ns[latent].id /\ hasObserved(l.target))
                    \/ (l.target = ns[latent].id /\ hasObserved(l.source)))
        a == [k \in 1..Len(mine) |->
                 findObserved(ns, IF mine[k].source = ns[latent].id
                                  THEN mine[k].target ELSE mine[k].source)]
        findIndex(v) == CHOOSE i \in 1..Len(a) :
                            /\ a[i] # 0 /\ ns[a[i]].id = ns[v].id
                            /\ \A j \in 1..(i - 1) : ~(a[j] # 0 /\ ns[a[j]].id = ns[v].id)
        keep == SelectSeq(IndexSeq(Len(a)), LAMBDA i : a[i] # 0 /\ findIndex(a[i]) = i)
    IN  [k \in 1..Len(keep) |-> a[keep[k]]]

(* placeObservedOf taking every observed node as connected.                *)
placeObservedOf_allObserved(cur, ls, latent) ==
    LET connectedObs == observedOf(cur)
        totalWidth == (Len(connectedObs) - 1) * observedGap
        startX == cur[latent].x - totalWidth \div 2
    IN  [i \in 1..Len(cur) |->
            IF i \in Range(connectedObs)
            THEN [cur[i] EXCEPT !.x = startX + (indexIn(connectedObs, i) - 1) * observedGap,
                                !.y = cur[latent].y + observedOffsetY]
            ELSE cur[i]]

placeObservedOf(cur, ls, latent) ==
    LET connectedObs == connectedObsOf(cur, ls, latent)
        totalWidth == (Len(connectedObs) - 1) * observedGap
        startX == cur[latent].x - totalWidth \div 2
    IN  [i \in 1..Len(cur) |->
            IF i \in Range(connectedObs)
            THEN [cur[i] EXCEPT !.x = startX + (indexIn(connectedObs, i) - 1) * observedGap,
                                !.y = cur[latent].y + observedOffsetY]
            ELSE cur[i]]

RECURSIVE placeObserved(_, _, _)
placeObserved(cur, ls, todo) ==
    IF Len(todo) = 0 THEN cur
    ELSE placeObserved(placeObservedOf(cur, ls, Head(todo)), ls, Tail(todo))

(* newNodes of autoLayout.                                                 *)
autoLayoutNodes(ns, ls) == placeObserved(placeLatents(ns, ls), ls, latentsOf(ns))

(* autoLayout() saving the nodes of before the layout.                     *)
autoLayout_savesStale ==
    /\ pc = "idle"
    /\ IF Len(latentsOf(nodes)) = 0 /\ Len(observedOf(nodes)) = 0
       THEN /\ UNCHANGED <<nodes, history, historyIndex, aliasedEntries, pc, budget>>
            /\ trail' = NoTrail
       ELSE LET newNodes == autoLayoutNodes(nodes, links)
                s == saveToHistory(history, historyIndex, historyIndex, nodes, links)
            IN  /\ budget > 0
                /\ nodes' = newNodes
                /\ history' = s.history
                /\ historyIndex' = s.historyIndex
                /\ aliasedEntries' = aliasedAfterSave(aliasedEntries, history, historyIndex)
                /\ pc' = "effect"
                /\ budget' = budget - 1
                /\ trail' = EditTrail("autoLayout", newNodes, links)
    /\ canvasClickUpdates
    /\ UNCHANGED <<links, ui, isUndoRedoAction>>

(* autoLayout(): the Auto Layout button of the toolbar.                    *)
autoLayout ==
    /\ pc = "idle"
    /\ IF Len(latentsOf(nodes)) = 0 /\ Len(observedOf(nodes)) = 0
       THEN /\ UNCHANGED <<nodes, history, historyIndex, aliasedEntries, pc, budget>>
            /\ trail' = NoTrail
       ELSE LET newNodes == autoLayoutNodes(nodes, links)
                s == saveToHistory(history, historyIndex, historyIndex, newNodes, links)
            IN  /\ budget > 0
                /\ nodes' = newNodes
                /\ history' = s.history
                /\ historyIndex' = s.historyIndex
                /\ aliasedEntries' = aliasedAfterSave(aliasedEntries, history, historyIndex)
                /\ pc' = "effect"
                /\ budget' = budget - 1
                /\ trail' = EditTrail("autoLayout", newNodes, links)
    /\ canvasClickUpdates
    /\ UNCHANGED <<links, ui, isUndoRedoAction>>

-----------------------------------------------------------------------------
(* The editor.                                                             *)

InitWith(g, n) ==
    /\ nodes = g.nodes
    /\ links = g.links
    /\ interactionMode = "move"
    /\ linkType = "directed"
    /\ linkingSourceId = NULL
    /\ tempLineEnd = NoPoint
    /\ selectedNodeId = NULL
    /\ selectedLinkIndex = NoIndex
    /\ history = <<>>
    /\ historyIndex = -1
    /\ isUndoRedoAction = FALSE
    /\ aliasedEntries = {}
    /\ pc = "mount"
    /\ budget = n
    /\ trail = NoTrail

Init == InitWith(EmptyGraph, MaxEdits)

Next ==
    \/ Mount
    \/ RecordEffect
    \/ undo
    \/ redo
    \/ canvasClick
    \/ \E label \in Labels, type \in NodeTypes, now \in ClockReadings, jitter \in JitterPairs :
           addNode(label, type, now, jitter)
    \/ \E id \in NodeIds(nodes) : handleNodeClick(id)
    \/ \E index \in 0..(Len(links) - 1) : linkRendered(index) /\ handleLinkClick(index)
    \/ \E point \in MovePoints : handleMouseMove(point)
    \/ moveModeButton
    \/ linkModeButton
    \/ \E type \in LinkTypes : linkTypeButton(type)
    \/ \E i \in 1..Len(nodes), point \in DropPoints : onDragEnd(i, point)
    \/ \E confirmed \in BOOLEAN : handleDeleteSelected(confirmed)
    \/ \E model \in StoredModels, confirmed \in BOOLEAN : loadModel(model, confirmed)
    \/ \E confirmed \in BOOLEAN : createNewModel(confirmed)
    \/ autoLayout

Spec == Init /\ [][Next]_vars

(* An editor constructed with a graph.                                     *)
InitStartup == \E g \in StartupGraphs : InitWith(g, MaxStartupEdits)
SpecStartup == InitStartup /\ [][Next]_vars

(* Auto layout applied, repeatedly, to an editor constructed with any of   *)
(* the input graphs.                                                       *)
InitLayout == \E g \in LayoutInputs : InitWith(g, MaxLayoutRuns)
NextLayout == Mount \/ RecordEffect \/ autoLayout
SpecLayout == InitLayout /\ [][NextLayout]_vars

-----------------------------------------------------------------------------
(* Properties.                                                             *)

live == Graph(nodes, links)

(* C1: in every reachable state every link's source and target are ids of  *)
(* nodes of the current node list.                                         *)
C1_NoDanglingLinks ==
    \A i \in 1..Len(links) :
        links[i].source \in NodeIds(nodes) /\ links[i].target \in NodeIds(nodes)

(* Two links join the same pair of nodes, in the same or in opposite       *)
(* directions.                                                             *)
samePair(l, m) == l.source = m.source /\ l.target = m.target
oppositePair(l, m) == l.source = m.target /\ l.target = m.source

(* C2: the link list never holds two links with the same ordered (source,  *)
(* target) pair, nor a covariance link together with another link between  *)
(* the same two nodes in either direction.                                 *)
C2_NoDuplicateLinks ==
    \A i, j \in 1..Len(links) :
        i # j =>
            /\ ~samePair(links[i], links[j])
            /\ (links[i].type = "covariance" => ~oppositePair(links[i], links[j]))

(* C3: an undo right after a graph-changing edit restores the graph that   *)
(* was live before the edit, and a redo right after that undo restores the  *)
(* graph that was live after it.                                           *)
C3_UndoRedoRoundTrip ==
    /\ trail.stage = "undo" => live = trail.pre
    /\ trail.stage = "redo" => live = trail.post

(* C4: the history holds at most 20 snapshots and the index is at most 19; *)
(* a snapshot recorded while the history is full with the index at its     *)
(* last entry evicts exactly the oldest one and keeps the order of the     *)
(* other 19.                                                               *)
historyBounded == Len(history) <= HISTORY_LIMIT /\ historyIndex <= HISTORY_LIMIT - 1
recording == (RecordEffect \/ autoLayout) /\ history' # history
C5_NoAdjacentEqualSnapshots ==
    \A k \in 1..(Len(history) - 1) : history[k] # history[k + 1]

(* C6: an undo or a redo leaves the history sequence as it is, moves the   *)
(* index by exactly one and makes the snapshot at the new index the live   *)
(* graph; the effect that follows changes none of them and resets the      *)
(* replay flag, which is false in every settled state.                     *)
undoApplies == undo /\ historyIndex > 0
redoApplies == redo /\ historyIndex < Len(history) - 1
C6_UndoRedoFrame ==
    /\ (pc = "idle" => ~isUndoRedoAction)
    /\ [][/\ undoApplies => /\ history' = history
                            /\ historyIndex' = historyIndex - 1
                            /\ Graph(nodes', links') = history[historyIndex' + 1]
          /\ redoApplies => /\ history' = history
                            /\ historyIndex' = historyIndex + 1
                            /\ Graph(nodes', links') = history[historyIndex' + 1]
          /\ (isUndoRedoAction /\ RecordEffect)
                => /\ history' = history
                   /\ historyIndex' = historyIndex
                   /\ Graph(nodes', links') = live
                   /\ pc' = "idle"
          /\ (pc' = "idle" => ~isUndoRedoAction')]_vars

(* An undo has just replaced the live graph by an older, different         *)
(* snapshot.                                                               *)
C6_Witness ==
    /\ isUndoRedoAction
    /\ pc = "effect"
    /\ historyIndex < Len(history) - 1
    /\ live = history[historyIndex + 1]
    /\ live # history[historyIndex + 2]

(* C7: once a fresh edit that changes the live graph, made while there     *)
(* were snapshots after the current index, has settled, the index is at    *)
(* the last history entry (a redo is a no-op) and that entry is the new    *)
(* live graph.                                                             *)
C7_EditDiscardsFuture ==
    (pc = "idle" /\ trail.stage = "edit" /\ trail.index < trail.length - 1)
        => /\ historyIndex = Len(history) - 1
           /\ HasCurrent(history, historyIndex)
           /\ history[historyIndex + 1] = live

C9_LayoutIdempotent ==
    LET once == autoLayoutNodes(nodes, links)
    IN  autoLayoutNodes(once, links) = once

(* Some latent has an observed node linked to it.                          *)
hasIndicator(ns, ls) ==
    \E l \in Range(latentsOf(ns)) : Len(connectedObsOf(ns, ls, l)) > 0

(* Auto layout has just moved nodes of a graph of exogenous latents with   *)
(* observed nodes linked to them: the live graph is its output.            *)
C9_Witness ==
    /\ trail.op = "autoLayout"
    /\ trail.stage = "edit"
    /\ live = trail.post
    /\ nodes = autoLayoutNodes(trail.pre.nodes, trail.pre.links)
    /\ Len(endogenousLatentsOf(nodes, links)) = 0
    /\ hasIndicator(nodes, links)

(* C10: auto layout puts a latent in the right (endogenous) column exactly *)
(* when a directed link from another latent targets it and in the left     *)
(* (exogenous) column otherwise; in each column the latents are stacked in *)
(* node-list order at the vertical spacing nodeGap, and no two latents     *)
(* share a position.                                                       *)
targetedByOtherLatent(ns, ls, i) ==
    \E k \in 1..Len(ls) :
        /\ ls[k].type = "directed"
        /\ ls[k].target = ns[i].id
        /\ \E j \in Range(latentsOf(ns)) : j # i /\ ns[j].id = ls[k].source

C10_LatentColumns ==
    [][(autoLayout /\ Len(nodes) > 0)
        => LET left == SelectSeq(latentsOf(nodes), LAMBDA i : ~targetedByOtherLatent(nodes, links, i))
               right == SelectSeq(latentsOf(nodes), LAMBDA i : targetedByOtherLatent(nodes, links, i))
           IN  /\ \A k \in 1..Len(left) :
                     /\ nodes'[left[k]].x = canvasPadding
                     /\ nodes'[left[k]].y = canvasPadding + (k - 1) * nodeGap
               /\ \A k \in 1..Len(right) :
                     /\ nodes'[right[k]].x = canvasPadding + layerGap
                     /\ k > 1 => nodes'[right[k]].y = nodes'[right[k - 1]].y + nodeGap
               /\ \A i, j \in Range(latentsOf(nodes)) :
                     i # j => <<nodes'[i].x, nodes'[i].y>> # <<nodes'[j].x, nodes'[j].y>>]_vars

(* C11: once a confirmed load of a saved model or a confirmed new-model    *)
(* action has settled, the history is exactly one snapshot equal to the    *)
(* loaded (or empty) graph, which is the live graph, the index is 0, and a *)
(* request to undo or to redo changes neither the graph nor the history.   *)
resetSettled == pc = "idle" /\ trail.stage = "reset"
C11_LoadResetsHistory ==
    [][/\ resetSettled' => /\ history' = <<trail'.post>>
                           /\ historyIndex' = 0
                           /\ Graph(nodes', links') = trail'.post
       /\ (resetSettled /\ (undo \/ redo))
            => UNCHANGED <<nodes, links, history, historyIndex>>]_vars

(* A confirmed load has settled in an editor that had several snapshots.   *)
C11_Witness ==
    /\ resetSettled
    /\ trail.op = "loadModel"
    /\ trail.length > 1
    /\ Len(nodes) > 0
    /\ live # trail.pre

(* C12: in an editor constructed with a non-empty graph and an empty       *)
(* history, once start-up has settled and before any edit the first        *)
(* history entry equals the initial graph and the index designates a       *)
(* stored snapshot equal to it; an undo right after the first              *)
(* graph-changing edit returns to the initial graph.                       *)
beforeFirstEdit == pc = "idle" /\ budget = MaxStartupEdits
afterFirstEdit == budget = MaxStartupEdits - 1 /\ trail.stage \in {"edit", "undo", "redo"}
C12_StartupSeedsHistory ==
    /\ beforeFirstEdit => /\ live \in StartupGraphs
                          /\ Len(history) > 0
                          /\ history[1] = live
                          /\ HasCurrent(history, historyIndex)
                          /\ history[historyIndex + 1] = live
    /\ afterFirstEdit => trail.pre \in StartupGraphs
    /\ (afterFirstEdit /\ trail.stage = "undo") => live = trail.pre

(* C13: in every reachable state at most one of the selected node id and   *)
(* the selected link index is non-null.                                    *)
C13_SingleSelection ==
    ~(selectedNodeId # NULL /\ selectedLinkIndex # NoIndex)

(* A link is selected in Move mode, where a node could be selected too.    *)
C13_Witness ==
    /\ selectedLinkIndex # NoIndex
    /\ selectedNodeId = NULL
    /\ interactionMode = "move"
    /\ linkRendered(selectedLinkIndex)

(* C14: whenever the interaction mode is Move there is no pending link     *)
(* source and no preview endpoint: a switch to Move mode clears both and   *)
(* no step taken in Move mode sets either.                                 *)
noPendingLink == linkingSourceId = NULL /\ tempLineEnd = NoPoint
C14_MoveModeHasNoPendingLink ==
    /\ interactionMode = "move" => noPendingLink
    /\ [][/\ interactionMode' = "move" => noPendingLink'
          /\ moveModeButton => interactionMode' = "move"
          /\ interactionMode = "move" => UNCHANGED <<linkingSourceId, tempLineEnd>>]_vars

(* Move mode entered again after a stay in Link mode (the link type is     *)
(* chosen in Link mode only) in which a link was drawn.                    *)
C14_Witness ==
    /\ interactionMode = "move"
    /\ linkType = "covariance"
    /\ Len(links) > 0
    /\ noPendingLink

(* A link from s to n of type ty would duplicate a link of ls: one with    *)
(* the same ordered pair, or one between the same two nodes in the other   *)
(* direction when either of the two is a covariance.                       *)
isDuplicate(ls, s, n, ty) ==
    \E i \in 1..Len(ls) :
        \/ samePair(ls[i], Link(s, n, ty))
        \/ (oppositePair(ls[i], Link(s, n, ty)) /\ (ty = "covariance" \/ ls[i].type = "covariance"))

(* C15: in Link mode with a pending source s, a click on a different node  *)
(* n clears the pending source whether or not the link is accepted; the    *)
(* link list gains exactly the entry (s, n, current link type) at its end  *)
(* when no duplicate exists, gains nothing else in any case, and is left   *)
(* unchanged when the link is rejected as a duplicate.                     *)
C15_SecondClickEndsGesture ==
    [][\A n \in NodeIds(nodes) :
          (handleNodeClick(n) /\ interactionMode = "link"
                              /\ linkingSourceId # NULL /\ linkingSourceId # n)
            => LET added == Append(links, Link(linkingSourceId, n, linkType))
               IN  /\ linkingSourceId' = NULL
                   /\ tempLineEnd' = NoPoint
                   /\ links' = links \/ links' = added
                   /\ ~isDuplicate(links, linkingSourceId, n, linkType) => links' = added
                   /\ linkExists(links, linkingSourceId, n, linkType) => links' = links
                   /\ nodes' = nodes]_vars

(* A two-click gesture has just been rejected as a duplicate: the pending  *)
(* source is cleared and the links are those of before.                    *)
C15_Witness ==
    /\ trail.op = "rejectLink"
    /\ interactionMode = "link"
    /\ linkingSourceId = NULL
    /\ Len(links) > 0

(* C16: no interaction creates a self-link: a click on the pending source  *)
(* in Link mode cancels the pending link and leaves the link list as it    *)
(* is, and in an editor that starts without self-links no link ever has    *)
(* its source equal to its target.                                         *)
noSelfLink(ls) == \A i \in 1..Len(ls) : ls[i].source # ls[i].target
C16_NoSelfLink ==
    /\ noSelfLink(links)
    /\ [][/\ noSelfLink(links')
          /\ \A n \in NodeIds(nodes) :
                (handleNodeClick(n) /\ interactionMode = "link" /\ linkingSourceId = n)
                    => /\ links' = links
                       /\ linkingSourceId' = NULL
                       /\ tempLineEnd' = NoPoint]_vars

(* A pending link has just been cancelled by a click on its source, in a   *)
(* graph that has links.                                                   *)
C16_Witness ==
    /\ trail.op = "cancelLink"
    /\ interactionMode = "link"
    /\ linkingSourceId = NULL
    /\ Len(links) > 0

(* C17: when the user declines a confirmation (delete node, delete link,   *)
(* load model, new model) the node list, the link list, the history, the   *)
(* history index and the selection are exactly as before the request.      *)
declined ==
    \/ handleDeleteSelected(FALSE)
    \/ \E model \in StoredModels : loadModel(model, FALSE)
    \/ createNewModel(FALSE)
C17_DeclineChangesNothing ==
    [][declined => UNCHANGED <<nodes, links, history, historyIndex,
                              selectedNodeId, selectedLinkIndex>>]_vars

(* C18: in every reachable graph all node ids are pairwise distinct, the   *)
(* clock reading of an add being any reading, the one of the previous add  *)
(* included.                                                               *)
C18_UniqueNodeIds ==
    \A i, j \in 1..Len(nodes) : i # j => nodes[i].id # nodes[j].id

(* C19: no edit of the live graph changes a snapshot stored in the         *)
(* history: a step that is not a load or a new model keeps the history, or *)
(* keeps a run of it (less the entries cut after the index and the oldest  *)
(* one when evicted) and appends one entry; and no stored snapshot, the    *)
(* one installed by a load included, holds objects of the live graph.      *)
resets == (\E model \in StoredModels : loadModel(model, TRUE)) \/ createNewModel(TRUE)
historyRetained ==
    \/ history' = history
    \/ \E shift \in {0, 1}, cut \in 0..Len(history) :
          /\ shift <= cut
          /\ Len(history') = cut - shift + 1
          /\ SubSeq(history', 1, cut - shift) = SubSeq(history, 1 + shift, cut)
C19_SnapshotsNotAliased ==
    [][/\ ~resets => historyRetained
       /\ aliasedEntries' = {}]_vars

(* C20: an auto-layout run on a non-empty graph that moves a node adds     *)
(* exactly one history entry, equal to the laid-out graph, after the       *)
(* entries up to the index (less the oldest when the history is full): the *)
(* handler's save appends it and the recording effect that follows appends *)
(* nothing.                                                                *)
layoutMoved == trail.op = "autoLayout" /\ trail.stage = "edit"
C20_LayoutRecordedOnce ==
    [][/\ (autoLayout /\ nodes' # nodes)
            => \E shift \in {0, 1} :
                  /\ shift = 1 <=> historyIndex + 1 >= HISTORY_LIMIT
                  /\ history' = Append(SubSeq(history, 1 + shift, historyIndex + 1),
                                       Graph(nodes', links'))
                  /\ historyIndex' = Len(history') - 1
       /\ (RecordEffect /\ layoutMoved)
            => /\ UNCHANGED <<history, historyIndex, nodes, links>>
               /\ pc' = "idle"
       /\ (layoutMoved' /\ pc' = "idle")
            => /\ Len(history') = Min(trail'.index + 2, HISTORY_LIMIT)
               /\ history'[Len(history')] = trail'.post
               /\ Graph(nodes', links') = trail'.post]_vars

(* A layout that moved a node, run after an undo, has settled: the entries *)
(* after the index are gone and the last entry is the laid-out graph.      *)
C20_Witness ==
    /\ layoutMoved
    /\ pc = "idle"
    /\ trail.index < trail.length - 1
    /\ live = trail.post
    /\ live # trail.pre
    /\ history[Len(history)] = live

(* The observed nodes (positions in ns) linked to the latent at position l *)
(* as source or target of any link.                                        *)
linkedObserved(ns, ls, l) ==
    {o \in Range(observedOf(ns)) :
        \E k \in 1..Len(ls) :
            \/ (ls[k].source = ns[l].id /\ ls[k].target = ns[o].id)
            \/ (ls[k].target = ns[l].id /\ ls[k].source = ns[o].id)}

(* C21: after auto layout, the observed nodes linked to a latent lie in    *)
(* one row centred on the latent's x at spacing observedGap and at the     *)
(* latent's y plus observedOffsetY, also when an observed node is linked   *)
(* to more than one latent.                                                *)
C21_ObservedRows ==
    LET out == autoLayoutNodes(nodes, links)
    IN  \A l \in Range(latentsOf(nodes)) :
            LET obs == linkedObserved(nodes, links, l)
                n == Cardinality(obs)
                startX == out[l].x - ((n - 1) * observedGap) \div 2
            IN  /\ \A o \in obs : out[o].y = out[l].y + observedOffsetY
                /\ {out[o].x : o \in obs} = {startX + k * observedGap : k \in 0..(n - 1)}

(* The observed nodes (positions in ns) that no latent is linked to.       *)
unlinkedObserved(ns, ls) ==
    {o \in Range(observedOf(ns)) :
        \A l \in Range(latentsOf(ns)) : o \notin linkedObserved(ns, ls, l)}

(* C22: auto layout changes only x and y of the nodes it places: the       *)
(* number, order, ids, labels and types of the nodes and the link list     *)
(* stay, and an observed node linked to no latent keeps its position.      *)
C22_LayoutFrame ==
    [][autoLayout
        => /\ Len(nodes') = Len(nodes)
           /\ \A i \in 1..Len(nodes) :
                 /\ nodes'[i].id = nodes[i].id
                 /\ nodes'[i].label = nodes[i].label
                 /\ nodes'[i].type = nodes[i].type
           /\ links' = links
           /\ \A o \in unlinkedObserved(nodes, links) :
                 nodes'[o].x = nodes[o].x /\ nodes'[o].y = nodes[o].y]_vars

(* Auto layout has just moved a node of a graph that has a latent and an   *)
(* observed node linked to no latent, which is where it was.               *)
C22_Witness ==
    /\ trail.op = "autoLayout"
    /\ trail.stage = "edit"
    /\ live = trail.post
    /\ Len(latentsOf(nodes)) > 0
    /\ \E o \in unlinkedObserved(nodes, links) : nodes[o] = trail.pre.nodes[o]

(* C23: the events that are not graph edits (a pointer movement updating   *)
(* the preview, the choice or the cancellation of a pending link source,   *)
(* a switch of mode or of link type, the selection of a node or a link,    *)
(* a click on the canvas) leave the node list, the link list, the history  *)
(* and the history index as they are, and no recording follows them.       *)
notAnEdit ==
    \/ \E point \in MovePoints : handleMouseMove(point)
    \/ \E id \in NodeIds(nodes) :
          /\ handleNodeClick(id)
          /\ interactionMode = "move" \/ linkingSourceId = NULL \/ linkingSourceId = id
    \/ \E index \in 0..(Len(links) - 1) : handleLinkClick(index)
    \/ moveModeButton
    \/ linkModeButton
    \/ \E type \in LinkTypes : linkTypeButton(type)
    \/ canvasClick
C23_NonEditsKeepGraphAndHistory ==
    [][notAnEdit => /\ UNCHANGED <<nodes, links, history, historyIndex>>
                    /\ pc' = "idle"]_vars

(* The preview endpoint has followed the pointer in the middle of a link   *)
(* gesture, in an editor whose history holds snapshots.                    *)
C23_Witness ==
    /\ pc = "idle"
    /\ interactionMode = "link"
    /\ linkingSourceId # NULL
    /\ tempLineEnd # NoPoint
    /\ Len(history) > 1
    /\ history[historyIndex + 1] = live

(* C24: in every settled state in which the history is non-empty, the      *)
(* snapshot at the history index equals the live graph, also when the live *)
(* graph has just become empty.                                            *)
C24_IndexedSnapshotIsLive ==
    (pc = "idle" /\ Len(history) > 0)
        => /\ HasCurrent(history, historyIndex)
           /\ history[historyIndex + 1] = live

(* C25: the history index always designates a stored snapshot: it is -1    *)
(* exactly when the history is empty and otherwise at least 0 and less     *)
(* than the length of the history, also during start-up with a graph.      *)
C25_IndexDesignatesSnapshot ==
    /\ historyIndex = -1 <=> Len(history) = 0
    /\ Len(history) > 0 => (0 <= historyIndex /\ historyIndex < Len(history))

(* C26: the selection always refers to an existing element: a non-null     *)
(* selected node id is the id of a node of the graph and a non-null        *)
(* selected link index is within the bounds of the link list, across       *)
(* undo, redo, load and new model.                                         *)
C26_SelectionExists ==
    /\ selectedNodeId # NULL => selectedNodeId \in NodeIds(nodes)
    /\ selectedLinkIndex # NoIndex => (0 <= selectedLinkIndex /\ selectedLinkIndex < Len(links))

(* A node is selected in a graph installed by a load, after which there    *)
(* were an edit and an undo.                                               *)
C26_Witness ==
    /\ pc = "idle"
    /\ selectedNodeId # NULL
    /\ selectedNodeId \in NodeIds(nodes)
    /\ aliasedEntries # {}
    /\ historyIndex < Len(history) - 1

(* C27: a preview endpoint exists only while a link is pending: whenever   *)
(* the pending link source is null the preview endpoint is null, however   *)
(* the pending link was ended (source clicked again, gesture completed,    *)
(* Move button, Link button).                                              *)
C27_PreviewOnlyWhilePending ==
    linkingSourceId = NULL => tempLineEnd = NoPoint

====
